---------------------------- MODULE Spec2Model ----------------------------
(***************************************************************************)
(* Routing schemes of superdesk-core (apps/rules/routing_rules.py):        *)
(* the weekday calendar, the schedule evaluation of                        *)
(* _get_scheduled_routing_rules, the validation done by on_create and      *)
(* on_update, and the rule loop of apply_routing_scheme.                   *)
(*                                                                         *)
(* Python values are tagged records: None is [t |-> "none"], a str is      *)
(* [t |-> "str", v |-> <<characters>>], a list is [t |-> "list", v |-> a   *)
(* sequence], a dict is [t |-> "dict", v |-> a function from key names],   *)
(* a bool is [t |-> "bool", v |-> BOOLEAN], a float is [t |-> "num"].      *)
(***************************************************************************)
EXTENDS Integers, Sequences, FiniteSets, TLC

(***************************************************************************)
(* Python values                                                           *)
(***************************************************************************)
NoneV == [t |-> "none"]
StrV(chars) == [t |-> "str", v |-> chars]
ListV(seq) == [t |-> "list", v |-> seq]
DictV(fn) == [t |-> "dict", v |-> fn]
BoolV(b) == [t |-> "bool", v |-> b]
NumV == [t |-> "num"]

EmptyDict == DictV(<<>>)

\* Python truthiness: None, "", [], {} and False are falsy.
Truthy(x) ==
    CASE x.t = "none" -> FALSE
      [] x.t = "str"  -> Len(x.v) > 0
      [] x.t = "list" -> Len(x.v) > 0
      [] x.t = "dict" -> DOMAIN x.v # {}
      [] x.t = "bool" -> x.v
      [] OTHER        -> TRUE

IsNone(x) == x.t = "none"

\* dict.get(key, default) and dict.get(key)
GetOr(d, key, default) == IF key \in DOMAIN d.v THEN d.v[key] ELSE default
Get(d, key) == GetOr(d, key, NoneV)

\* len() of a str, a list or a dict
PyLen(x) == IF x.t = "dict" THEN Cardinality(DOMAIN x.v) ELSE Len(x.v)

\* d[key] = value on a dict (the key is added when it is missing)
SetItem(d, key, value) ==
    DictV([k \in (DOMAIN d.v) \cup {key} |-> IF k = key THEN value ELSE d.v[k]])

(***************************************************************************)
(* Characters, str.upper() and the strings of the model                    *)
(***************************************************************************)
LowerChars == <<"a","b","c","d","e","f","g","h","i","j","k","l","m",
                "n","o","p","q","r","s","t","u","v","w","x","y","z">>
UpperChars == <<"A","B","C","D","E","F","G","H","I","J","K","L","M",
                "N","O","P","Q","R","S","T","U","V","W","X","Y","Z">>
DigitChars == <<"0","1","2","3","4","5","6","7","8","9">>

UpperChar(c) ==
    IF \E i \in 1..26 : LowerChars[i] = c
    THEN UpperChars[CHOOSE i \in 1..26 : LowerChars[i] = c]
    ELSE c

\* str.upper()
Upper(chars) == [i \in 1..Len(chars) |-> UpperChar(chars[i])]

IsDigit(c) == \E i \in 1..10 : DigitChars[i] = c
DigitVal(c) == (CHOOSE i \in 1..10 : DigitChars[i] = c) - 1

(***************************************************************************)
(* class Weekdays(Enum)                                                    *)
(***************************************************************************)
\* Weekdays.__members__, in value order: MON = 0 ... SUN = 6
WeekdayMembers == << <<"M","O","N">>, <<"T","U","E">>, <<"W","E","D">>,
                     <<"T","H","U">>, <<"F","R","I">>, <<"S","A","T">>,
                     <<"S","U","N">> >>

IsMember(name) == \E i \in 1..7 : WeekdayMembers[i] = name

\* cls[name].value
WeekdayValue(name) == (CHOOSE i \in 1..7 : WeekdayMembers[i] = name) - 1

\* Weekdays.is_valid_schedule(list_of_days)
is_valid_schedule(list_of_days) ==
    \A i \in 1..Len(list_of_days.v) : IsMember(Upper(list_of_days.v[i].v))

(***************************************************************************)
(* datetime: a wall-clock day number (day 0 is a Monday) and second of the *)
(* day, with the UTC offset of its tzinfo in seconds.  Instants are whole  *)
(* seconds: the ends of the windows are whole seconds, so the microseconds *)
(* of an instant never change on which side of an end it falls.            *)
(***************************************************************************)
SecondsPerDay == 86400

DateTime(day, sod, off) == [day |-> day, sod |-> sod, off |-> off]

\* the instant a datetime denotes, in seconds on the UTC time line
Instant(dt) == dt.day * SecondsPerDay + dt.sod - dt.off

\* datetime.weekday()
weekday(dt) == dt.day % 7

\* dt + timedelta(seconds=n): wall-clock arithmetic, tzinfo kept
AddSeconds(dt, n) ==
    LET total == dt.day * SecondsPerDay + dt.sod + n
    IN  DateTime(total \div SecondsPerDay, total % SecondsPerDay, dt.off)

\* timedelta(minutes=1)
delta_minute == 60

\* dt.astimezone(tz): the same instant on the wall clock of offset off
astimezone(dt, off) ==
    LET total == Instant(dt) + off
    IN  DateTime(total \div SecondsPerDay, total % SecondsPerDay, off)

\* a < b and a <= b on aware datetimes
DtLess(a, b) == Instant(a) < Instant(b)
DtLeq(a, b) == Instant(a) <= Instant(b)


(***************************************************************************)
(* "HH:MM:SS" strings: datetime.strptime(s, "%H:%M:%S")                    *)
(***************************************************************************)
\* s.split(":")
RECURSIVE SplitColon(_)
SplitColon(chars) ==
    IF \A i \in 1..Len(chars) : chars[i] # ":"
    THEN <<chars>>
    ELSE LET k == CHOOSE i \in 1..Len(chars) :
                    chars[i] = ":" /\ \A j \in 1..(i - 1) : chars[j] # ":"
         IN  <<SubSeq(chars, 1, k - 1)>> \o SplitColon(SubSeq(chars, k + 1, Len(chars)))

\* the number a field of one or two digits denotes
FieldVal(f) == IF Len(f) = 1 THEN DigitVal(f[1]) ELSE 10 * DigitVal(f[1]) + DigitVal(f[2])

\* %H, %M and %S each take one or two digits, within 0..max
FieldOk(f, max) ==
    /\ Len(f) \in {1, 2}
    /\ \A i \in 1..Len(f) : IsDigit(f[i])
    /\ FieldVal(f) <= max

\* datetime.strptime(x, "%H:%M:%S"): [ok |-> FALSE] stands for the exception
\* (TypeError when x is not a str, ValueError when it does not match), and
\* sod is the time of day of the 1900-01-01 datetime returned.
strptime(x) ==
    IF x.t # "str" THEN [ok |-> FALSE, sod |-> 0]
    ELSE LET f == SplitColon(x.v)
         IN  IF Len(f) = 3 /\ FieldOk(f[1], 23) /\ FieldOk(f[2], 59) /\ FieldOk(f[3], 59)
             THEN [ok |-> TRUE,
                   sod |-> FieldVal(f[1]) * 3600 + FieldVal(f[2]) * 60 + FieldVal(f[3])]
             ELSE [ok |-> FALSE, sod |-> 0]

\* superdesk.utc.set_time(dt, timestr), which lives in superdesk/utc.py: as the
\* schedule evaluation is specified, dt with its time of day replaced by the
\* "HH:MM:SS" of timestr, date and tzinfo kept.
set_time(dt, timestr) == DateTime(dt.day, strptime(timestr).sod, dt.off)

\* s[-2:]
LastTwo(chars) == IF Len(chars) <= 2 THEN chars ELSE SubSeq(chars, Len(chars) - 1, Len(chars))

\* the str "HH:MM:SS" of a second of the day, as a client writes it
TimeStr(sod) ==
    LET h == sod \div 3600
        m == (sod % 3600) \div 60
        s == sod % 60
    IN  StrV(<<DigitChars[(h \div 10) + 1], DigitChars[(h % 10) + 1], ":",
               DigitChars[(m \div 10) + 1], DigitChars[(m % 10) + 1], ":",
               DigitChars[(s \div 10) + 1], DigitChars[(s % 10) + 1]>>)

(***************************************************************************)
(* Time zones: pytz.all_timezones_set and pytz.timezone(name), for three   *)
(* zones without daylight saving time                                      *)
(***************************************************************************)
TzUTC == StrV(<<"U","T","C">>)
TzJapan == StrV(<<"J","a","p","a","n">>)
TzEST == StrV(<<"E","S","T">>)
TzMars == StrV(<<"M","a","r","s">>)

all_timezones_set == {TzUTC, TzJapan, TzEST}

\* the UTC offset, in seconds, of pytz.timezone(tz_name)
timezone(tz_name) ==
    CASE tz_name = TzJapan -> 9 * 3600
      [] tz_name = TzEST   -> 0 - 5 * 3600
      [] OTHER             -> 0

\* pytz.utc
utc == 0

(***************************************************************************)
(* RoutingRuleSchemeService._get_scheduled_routing_rules                   *)
(***************************************************************************)
\* Weekdays.is_scheduled_day(today, list_of_days)
is_scheduled_day(today, list_of_days) ==
    weekday(today) \in
        {WeekdayValue(Upper(list_of_days.v[i].v)) : i \in 1..Len(list_of_days.v)}

\* NowTzSchedule with the conversion to the schedule's zone left out
NowTzScheduleUtc(schedule, current_dt_utc) == astimezone(current_dt_utc, utc)

\* "adjust current time to the schedule's timezone"
NowTzSchedule(schedule, current_dt_utc) ==
    LET tz_name == Get(schedule, "time_zone")
        schedule_tz == IF Truthy(tz_name) THEN timezone(tz_name) ELSE utc
    IN  astimezone(current_dt_utc, schedule_tz)

\* the start of the window: the beginning of the day when no start is given
FromTime(schedule, now_tz_schedule) ==
    LET hour_of_day_from == Get(schedule, "hour_of_day_from")
    IN  IF ~Truthy(hour_of_day_from)
        THEN set_time(now_tz_schedule, TimeStr(0))
        ELSE set_time(now_tz_schedule, hour_of_day_from)

\* ToTime without the minute added to an end written with seconds "00"
ToTimeAsWritten(schedule, now_tz_schedule) ==
    LET hour_of_day_to == Get(schedule, "hour_of_day_to")
    IN  IF Truthy(hour_of_day_to)
        THEN set_time(now_tz_schedule, hour_of_day_to)
        ELSE AddSeconds(set_time(now_tz_schedule, TimeStr(SecondsPerDay - 1)), delta_minute)

\* the end of the window: a minute later than written when the seconds are
\* "00", the end of the day when no end is given
ToTime(schedule, now_tz_schedule) ==
    LET hour_of_day_to == Get(schedule, "hour_of_day_to")
    IN  IF Truthy(hour_of_day_to)
        THEN IF LastTwo(hour_of_day_to.v) = <<"0", "0">>
             THEN AddSeconds(set_time(now_tz_schedule, hour_of_day_to), delta_minute)
             ELSE set_time(now_tz_schedule, hour_of_day_to)
        ELSE AddSeconds(set_time(now_tz_schedule, TimeStr(SecondsPerDay - 1)), delta_minute)

\* TimeOfDayMatches with the start of the window excluded
TimeOfDayMatchesOpenStart(from_time, now_tz_schedule, to_time) ==
    DtLess(from_time, now_tz_schedule) /\ DtLess(now_tz_schedule, to_time)

\* from_time <= now_tz_schedule < to_time
TimeOfDayMatches(from_time, now_tz_schedule, to_time) ==
    DtLeq(from_time, now_tz_schedule) /\ DtLess(now_tz_schedule, to_time)

\* is_scheduled of one rule of the loop
IsScheduled(rule, current_dt_utc) ==
    LET schedule == GetOr(rule, "schedule", EmptyDict)
    IN  IF ~Truthy(schedule) THEN TRUE
        ELSE LET now_tz_schedule == NowTzSchedule(schedule, current_dt_utc)
                 from_time == FromTime(schedule, now_tz_schedule)
                 to_time == ToTime(schedule, now_tz_schedule)
                 day_of_week_matches ==
                     is_scheduled_day(now_tz_schedule,
                                      GetOr(schedule, "day_of_week", ListV(<<>>)))
                 time_of_day_matches ==
                     TimeOfDayMatches(from_time, now_tz_schedule, to_time)
             IN  day_of_week_matches /\ time_of_day_matches

\* _get_scheduled_routing_rules(rules, current_dt_utc): the rules scheduled at
\* current_dt_utc, in the order of rules
RECURSIVE get_scheduled_routing_rules(_, _)
get_scheduled_routing_rules(rules, current_dt_utc) ==
    IF rules = <<>> THEN <<>>
    ELSE (IF IsScheduled(Head(rules), current_dt_utc) THEN <<Head(rules)>> ELSE <<>>)
         \o get_scheduled_routing_rules(Tail(rules), current_dt_utc)

(***************************************************************************)
(* State                                                                   *)
(***************************************************************************)
VARIABLES
    \* _get_scheduled_routing_rules called on its own
    schedRules,      \* the argument rules
    schedNow,        \* the argument current_dt_utc
    schedGhost,      \* the numbers schedRules and schedNow were written from
    schedOut,        \* the list returned
    schedPc,         \* "idle" before the call, "done" after
    \* apply_routing_scheme
    routing_scheme,  \* the argument routing_scheme
    provider,        \* the argument provider
    now,             \* datetime.utcnow() of the call
    handles,         \* names of the rules whose handler can_handle the item
    matches,         \* names of the rules whose filter does_match the item
    scheduled,       \* the list the for loop iterates
    idx,             \* the position of the loop in scheduled
    calls,           \* the calls made to the handlers and the filter service
    pc,              \* "idle", "loop", "done" or "raised"
    \* on_create / on_update
    docs,            \* the documents submitted, as the hooks leave them
    docsGhost,       \* what each rule of docs was written to be
    op,              \* "none", "create" or "update"
    outcome,         \* "pending", "accepted" or the error raised
    \* on_delete and the document store
    routing_schemes,   \* the identifiers of the schemes in the store
    ingest_providers,  \* the ingest provider documents in the store
    deleteDoc,         \* the scheme document given to on_delete
    deleteOutcome      \* "none", "passed", "SchemeInUse" or "deleted"

schedVars == <<schedRules, schedNow, schedGhost, schedOut, schedPc>>
routeVars == <<routing_scheme, provider, now, handles, matches, scheduled, idx, calls, pc>>
validVars == <<docs, docsGhost, op, outcome>>
deleteVars == <<routing_schemes, ingest_providers, deleteDoc, deleteOutcome>>
vars == <<schedVars, routeVars, validVars, deleteVars>>

\* a name of one or two characters
NameA == StrV(<<"a">>)
NameB == StrV(<<"b">>)
NameC == StrV(<<"c">>)
NameD == StrV(<<"d">>)

SchedIdle ==
    /\ schedRules = <<>>
    /\ schedNow = DateTime(0, 0, utc)
    /\ schedGhost = NoneV
    /\ schedOut = <<>>
    /\ schedPc = "idle"

RouteIdle ==
    /\ routing_scheme = EmptyDict
    /\ provider = EmptyDict
    /\ now = DateTime(0, 0, utc)
    /\ handles = {}
    /\ matches = {}
    /\ scheduled = <<>>
    /\ idx = 0
    /\ calls = <<>>
    /\ pc = "idle"

ValidIdle ==
    /\ docs = <<>>
    /\ docsGhost = <<>>
    /\ op = "none"
    /\ outcome = "pending"

DeleteIdle ==
    /\ routing_schemes = {}
    /\ ingest_providers = <<>>
    /\ deleteDoc = NoneV
    /\ deleteOutcome = "none"

(***************************************************************************)
(* Schedules as clients write them                                         *)
(***************************************************************************)
LowerChar(c) ==
    IF \E i \in 1..26 : UpperChars[i] = c
    THEN LowerChars[CHOOSE i \in 1..26 : UpperChars[i] = c]
    ELSE c

\* the name of weekday d (0 = Monday) written "mon", "MON" or "Mon"
DayName(d, case) ==
    LET up == WeekdayMembers[d + 1]
    IN  StrV(CASE case = "upper" -> up
               [] case = "title" -> [i \in 1..3 |-> IF i = 1 THEN up[i] ELSE LowerChar(up[i])]
               [] OTHER          -> [i \in 1..3 |-> LowerChar(up[i])])

\* the day_of_week list of a set of weekdays, in week order
RECURSIVE DayList(_, _)
DayList(days, case) ==
    IF days = {} THEN <<>>
    ELSE LET d == CHOOSE x \in days : \A y \in days : x <= y
         IN  <<DayName(d, case)>> \o DayList(days \ {d}, case)

\* An optional "HH:MM:SS" field: a second of the day, or -1 for a missing
\* key, -2 for None, -3 for "".
KeyMissing == 0 - 1
KeyNone == 0 - 2
KeyEmpty == 0 - 3

WithTime(d, key, t) ==
    CASE t = KeyMissing -> d
      [] t = KeyNone    -> SetItem(d, key, NoneV)
      [] t = KeyEmpty   -> SetItem(d, key, StrV(<<>>))
      [] OTHER          -> SetItem(d, key, TimeStr(t))

WithZone(d, tz) == IF tz = NoneV THEN d ELSE SetItem(d, "time_zone", tz)

\* the schedule dict of weekdays days, window from..to and zone tz
Schedule(days, case, from, to, tz) ==
    WithZone(WithTime(WithTime(DictV([day_of_week |-> ListV(DayList(days, case))]),
                               "hour_of_day_from", from),
                      "hour_of_day_to", to),
             tz)

FetchActions == DictV([fetch |-> ListV(<<DictV([desk |-> StrV(<<"D","1">>)])>>)])

(***************************************************************************)
(* _get_scheduled_routing_rules called with one rule                       *)
(***************************************************************************)
\* the second of the day of h:m:s
HMS(h, m, s) == h * 3600 + m * 60 + s

T0000 == HMS(0, 0, 0)
T0900 == HMS(9, 0, 0)
T1700 == HMS(17, 0, 0)
T170030 == HMS(17, 0, 30)
T2359 == HMS(23, 59, 0)
T235959 == HMS(23, 59, 59)

SchedDays == { <<{0}, "lower">>, <<{0}, "upper">>, <<{0}, "title">>, <<{1}, "title">>,
               <<{0, 1}, "lower">>, <<{6}, "upper">>, <<0..6, "lower">> }
SchedFrom == {KeyMissing, KeyNone, KeyEmpty, T0000, T0900, T170030}
SchedTo == {KeyMissing, KeyNone, T0900, T1700, T170030, T2359, T235959}
\* a time_zone value (None: the key is missing) with its offset from UTC
SchedZones == { <<NoneV, 0>>, <<TzUTC, 0>>, <<TzJapan, HMS(9, 0, 0)>>,
                <<TzEST, 0 - HMS(5, 0, 0)>> }

\* the seconds of the local day around the ends of the windows
LocalSeconds ==
    UNION { {t - 1, t, t + 1, t + 59, t + 60, t + 61} : t \in {T0900, T1700, T170030} }
    \cup {0, 1, T2359 - 1, T2359, T2359 + 1, T235959}

\* the UTC instants of two days (a Monday and a Tuesday) that fall on those
\* seconds in one of the zones
SchedInstants ==
    { DateTime(d, (s - z[2]) % SecondsPerDay, utc) :
        d \in {7, 8}, s \in LocalSeconds, z \in SchedZones }

InitSched ==
    /\ \E dc \in SchedDays, f \in SchedFrom, t \in SchedTo, z \in SchedZones :
         /\ schedGhost = [days |-> dc[1], from |-> f, to |-> t, off |-> z[2]]
         /\ schedRules = <<DictV([name |-> NameA, actions |-> FetchActions,
                                  schedule |-> Schedule(dc[1], dc[2], f, t, z[1])])>>
    /\ schedNow \in SchedInstants
    /\ schedOut = <<>>
    /\ schedPc = "idle"
    /\ RouteIdle
    /\ ValidIdle
    /\ DeleteIdle

GetScheduledRoutingRules ==
    /\ schedPc = "idle"
    /\ schedOut' = get_scheduled_routing_rules(schedRules, schedNow)
    /\ schedPc' = "done"
    /\ UNCHANGED <<schedRules, schedNow, schedGhost, routeVars, validVars, deleteVars>>

NextSched == GetScheduledRoutingRules

SpecSched == InitSched /\ [][NextSched]_vars

(***************************************************************************)
(* RoutingRuleSchemeService.apply_routing_scheme                           *)
(***************************************************************************)
MaxRules == 3

RuleNames == <<NameA, NameB, NameC, NameD, StrV(<<"e">>)>>

\* the schedule of the scenario: Mondays, 09:00:00 to 17:00:00, UTC
MondaySchedule == Schedule({0}, "lower", T0900, T1700, TzUTC)

\* a rule that fetches to a desk; exit is "true", "false" or "absent" (no
\* exit key), sched is "monday" or "absent" (no schedule key)
RouteRule(name, exit, sched) ==
    LET actions == IF exit = "absent" THEN FetchActions
                   ELSE SetItem(FetchActions, "exit", BoolV(exit = "true"))
        rule == DictV([name |-> name, actions |-> actions])
    IN  IF sched = "absent" THEN rule ELSE SetItem(rule, "schedule", MondaySchedule)

RuleOptions == { <<"true", "monday">>, <<"true", "absent">>, <<"false", "monday">>,
                 <<"false", "absent">>, <<"absent", "absent">> }

\* the rule lists of at most MaxRules rules, named a, b, c ... by position
RuleLists ==
    UNION { { [i \in 1..n |-> RouteRule(RuleNames[i], o[i][1], o[i][2])] :
                o \in [1..n -> RuleOptions] } : n \in 0..MaxRules }

SchemeName == StrV(<<"s">>)

\* Monday 10:00:00 and Tuesday 10:00:00, UTC
RouteInstants == {DateTime(7, HMS(10, 0, 0), utc), DateTime(8, HMS(10, 0, 0), utc)}

\* a provider named "AAP", and one whose name is a number
Providers == {DictV([name |-> StrV(<<"A","A","P">>)]), DictV([name |-> NumV])}

NamesOf(rules) == {Get(rules[i], "name") : i \in 1..Len(rules)}

\* The filter's answer for a rule whose handler does not take the item is
\* never read, so matches is drawn from the handled rules; the provider's
\* name is only formatted with a float conversion when there are no rules.
InitRoute ==
    /\ \E rules \in RuleLists :
         /\ routing_scheme \in
              {DictV([name |-> SchemeName, rules |-> ListV(rules)])}
              \cup (IF rules = <<>> THEN {DictV([name |-> SchemeName])} ELSE {})
         /\ handles \in SUBSET NamesOf(rules)
         /\ matches \in SUBSET handles
         /\ provider \in (IF rules = <<>> THEN Providers
                           ELSE {DictV([name |-> StrV(<<"A","A","P">>)])})
    /\ now \in RouteInstants
    /\ scheduled = <<>>
    /\ idx = 0
    /\ calls = <<>>
    /\ pc = "idle"
    /\ SchedIdle
    /\ ValidIdle
    /\ DeleteIdle

\* "Routing Scheme % for provider % has no rules configured." % (a, b): the
\* first conversion is "% f" (a float, space flag) and the second "% ha"
\* (ascii() of anything), so the formatting raises TypeError unless a is a
\* number.
WarningFormatRaises(a, b) == a.t \notin {"num", "bool"}

\* rule.get("actions", {}).get("exit", False)
RuleExit(rule) == Truthy(GetOr(GetOr(rule, "actions", EmptyDict), "exit", BoolV(FALSE)))

Call(what, rule) == [op |-> what, rule |-> Get(rule, "name")]

\* rule_handler.can_handle(rule, ingest_item, routing_scheme)
can_handle(rule) == Get(rule, "name") \in handles

\* filters_service.does_match(content_filter, ingest_item)
does_match(rule) == Get(rule, "name") \in matches

\* Lines 196-207: the rules are read, the warning is formatted when there are
\* none, and the scheduled rules are computed for the loop.
Begin ==
    /\ pc = "idle"
    /\ LET rules == GetOr(routing_scheme, "rules", ListV(<<>>))
       IN  IF ~Truthy(rules)
              /\ WarningFormatRaises(Get(provider, "name"), Get(routing_scheme, "name"))
           THEN /\ pc' = "raised"
                /\ UNCHANGED <<scheduled, idx>>
           ELSE /\ scheduled' = get_scheduled_routing_rules(rules.v, now)
                /\ idx' = 1
                /\ pc' = "loop"
    /\ UNCHANGED <<routing_scheme, provider, now, handles, matches, calls>>
    /\ UNCHANGED <<schedVars, validVars, deleteVars>>

\* RuleNotHandled with the filter asked although the handler refused
RuleNotHandledAsksFilter ==
    /\ pc = "loop"
    /\ idx <= Len(scheduled)
    /\ ~can_handle(scheduled[idx])
    /\ calls' = calls \o <<Call("can_handle", scheduled[idx]),
                           Call("does_match", scheduled[idx])>>
    /\ idx' = idx + 1
    /\ UNCHANGED <<routing_scheme, provider, now, handles, matches, scheduled, pc>>
    /\ UNCHANGED <<schedVars, validVars, deleteVars>>

\* Lines 214-219: the handler does not support the item; next rule.
RuleNotHandled ==
    /\ pc = "loop"
    /\ idx <= Len(scheduled)
    /\ ~can_handle(scheduled[idx])
    /\ calls' = calls \o <<Call("can_handle", scheduled[idx])>>
    /\ idx' = idx + 1
    /\ UNCHANGED <<routing_scheme, provider, now, handles, matches, scheduled, pc>>
    /\ UNCHANGED <<schedVars, validVars, deleteVars>>

\* RuleApplied without the break on exit
RuleAppliedNoBreak ==
    /\ pc = "loop"
    /\ idx <= Len(scheduled)
    /\ can_handle(scheduled[idx])
    /\ does_match(scheduled[idx])
    /\ calls' = calls \o <<Call("can_handle", scheduled[idx]),
                           Call("does_match", scheduled[idx]),
                           Call("apply_rule", scheduled[idx])>>
    /\ pc' = "loop"
    /\ idx' = idx + 1
    /\ UNCHANGED <<routing_scheme, provider, now, handles, matches, scheduled>>
    /\ UNCHANGED <<schedVars, validVars, deleteVars>>

\* Lines 220-232: the filter matches, the handler applies the rule, and the
\* loop is left when the rule's actions say exit.
RuleApplied ==
    /\ pc = "loop"
    /\ idx <= Len(scheduled)
    /\ can_handle(scheduled[idx])
    /\ does_match(scheduled[idx])
    /\ calls' = calls \o <<Call("can_handle", scheduled[idx]),
                           Call("does_match", scheduled[idx]),
                           Call("apply_rule", scheduled[idx])>>
    /\ IF RuleExit(scheduled[idx])
       THEN pc' = "done" /\ idx' = idx
       ELSE pc' = "loop" /\ idx' = idx + 1
    /\ UNCHANGED <<routing_scheme, provider, now, handles, matches, scheduled>>
    /\ UNCHANGED <<schedVars, validVars, deleteVars>>

\* Line 226 when the handler's apply_rule raises: the error leaves
\* apply_routing_scheme, which catches nothing.
RuleHandlerRaises ==
    /\ pc = "loop"
    /\ idx <= Len(scheduled)
    /\ can_handle(scheduled[idx])
    /\ does_match(scheduled[idx])
    /\ calls' = calls \o <<Call("can_handle", scheduled[idx]),
                           Call("does_match", scheduled[idx]),
                           Call("apply_rule", scheduled[idx])>>
    /\ pc' = "raised"
    /\ UNCHANGED <<routing_scheme, provider, now, handles, matches, scheduled, idx>>
    /\ UNCHANGED <<schedVars, validVars, deleteVars>>

\* RuleNotMatched with the exit test made although the rule was not applied
RuleNotMatchedExits ==
    /\ pc = "loop"
    /\ idx <= Len(scheduled)
    /\ can_handle(scheduled[idx])
    /\ ~does_match(scheduled[idx])
    /\ calls' = calls \o <<Call("can_handle", scheduled[idx]),
                           Call("does_match", scheduled[idx])>>
    /\ IF RuleExit(scheduled[idx])
       THEN pc' = "done" /\ idx' = idx
       ELSE pc' = "loop" /\ idx' = idx + 1
    /\ UNCHANGED <<routing_scheme, provider, now, handles, matches, scheduled>>
    /\ UNCHANGED <<schedVars, validVars, deleteVars>>

\* Lines 233-237: the handler supports the item and the filter does not
\* match; next rule.
RuleNotMatched ==
    /\ pc = "loop"
    /\ idx <= Len(scheduled)
    /\ can_handle(scheduled[idx])
    /\ ~does_match(scheduled[idx])
    /\ calls' = calls \o <<Call("can_handle", scheduled[idx]),
                           Call("does_match", scheduled[idx])>>
    /\ idx' = idx + 1
    /\ UNCHANGED <<routing_scheme, provider, now, handles, matches, scheduled, pc>>
    /\ UNCHANGED <<schedVars, validVars, deleteVars>>

\* Line 207 when the scheduled rules are exhausted: the method returns.
LoopEnd ==
    /\ pc = "loop"
    /\ idx > Len(scheduled)
    /\ pc' = "done"
    /\ UNCHANGED <<routing_scheme, provider, now, handles, matches, scheduled, idx, calls>>
    /\ UNCHANGED <<schedVars, validVars, deleteVars>>

NextRoute ==
    \/ Begin
    \/ RuleNotHandled
    \/ RuleApplied
    \/ RuleHandlerRaises
    \/ RuleNotMatched
    \/ LoopEnd

SpecRoute == InitRoute /\ [][NextRoute]_vars

(***************************************************************************)
(* RoutingRuleSchemeService: _adjust_for_empty_schedules,                  *)
(* _validate_routing_scheme, _validate_schedule and                        *)
(* _check_if_rule_name_is_unique                                           *)
(***************************************************************************)
\* AdjustRule leaving a schedule that holds only the time_zone key as it is
AdjustRuleNoCollapse(rule) ==
    LET schedule == Get(rule, "schedule")
    IN  IF Truthy(schedule) /\ "time_zone" \notin DOMAIN schedule.v
        THEN SetItem(rule, "schedule", SetItem(schedule, "time_zone", TzUTC))
        ELSE rule

\* One rule of _adjust_for_empty_schedules: a schedule holding only the
\* time_zone key becomes None, one without it gets time_zone "UTC".
AdjustRule(rule) ==
    LET schedule == Get(rule, "schedule")
    IN  IF Truthy(schedule)
        THEN IF DOMAIN schedule.v = {"time_zone"}
             THEN SetItem(rule, "schedule", NoneV)
             ELSE IF "time_zone" \notin DOMAIN schedule.v
                  THEN SetItem(rule, "schedule", SetItem(schedule, "time_zone", TzUTC))
                  ELSE rule
        ELSE rule

\* _adjust_for_empty_schedules(routing_scheme): the scheme as it is left
adjust_for_empty_schedules(scheme) ==
    IF "rules" \in DOMAIN scheme.v
    THEN LET rules == scheme.v["rules"].v
         IN  SetItem(scheme, "rules", ListV([i \in 1..Len(rules) |-> AdjustRule(rules[i])]))
    ELSE scheme

\* _validate_schedule(schedule): the error raised, or "ok"
validate_schedule(schedule) ==
    IF /\ ~IsNone(schedule)
       /\ \/ PyLen(schedule) = 0
          \/ IsNone(Get(schedule, "day_of_week"))
          \/ PyLen(GetOr(schedule, "day_of_week", ListV(<<>>))) = 0
    THEN "EmptySchedule"
    ELSE IF ~Truthy(schedule) THEN "ok"
    ELSE IF ~is_valid_schedule(GetOr(schedule, "day_of_week", ListV(<<>>)))
    THEN "InvalidDayOfWeek"
    ELSE LET from == Get(schedule, "hour_of_day_from")
             to == GetOr(schedule, "hour_of_day_to", StrV(<<>>))
             times ==
                 IF Truthy(from) \/ Truthy(Get(schedule, "hour_of_day_to"))
                 THEN IF ~strptime(from).ok THEN "InvalidFromTime"
                      ELSE IF Truthy(to)
                           THEN IF ~strptime(to).ok THEN "InvalidToTime"
                                ELSE IF strptime(from).sod > strptime(to).sod
                                     THEN "FromAfterTo"
                                     ELSE "ok"
                           ELSE "ok"
                 ELSE "ok"
             time_zone == Get(schedule, "time_zone")
         IN  IF times # "ok" THEN times
             ELSE IF Truthy(time_zone) /\ time_zone \notin all_timezones_set
                  THEN "UnknownTimeZone"
                  ELSE "ok"

RuleFields == {"name", "handler", "filter", "actions", "schedule"}

\* the body of the loop of _validate_routing_scheme for one rule: the error
\* raised, or "ok"
ValidateRule(routing_rule) ==
    LET invalid_fields == (DOMAIN routing_rule.v) \ RuleFields
        schedule == Get(routing_rule, "schedule")
        actions == Get(routing_rule, "actions")
    IN  IF invalid_fields # {} THEN "InvalidRuleFields"
        ELSE IF IsNone(Get(routing_rule, "name")) THEN "MissingRuleName"
        ELSE IF \/ IsNone(actions)
                \/ PyLen(actions) = 0
                \/ /\ IsNone(Get(actions, "fetch"))
                   /\ IsNone(Get(actions, "publish"))
                   /\ IsNone(Get(actions, "exit"))
             THEN "MissingActions"
             ELSE validate_schedule(schedule)

\* the loop of _validate_routing_scheme: the first error of the rules in order
RECURSIVE ValidateRules(_)
ValidateRules(rules) ==
    IF rules = <<>> THEN "ok"
    ELSE LET error == ValidateRule(Head(rules))
         IN  IF error # "ok" THEN error ELSE ValidateRules(Tail(rules))

\* ValidateRule without its last step, the schedule
ValidateRuleStructure(routing_rule) ==
    LET invalid_fields == (DOMAIN routing_rule.v) \ RuleFields
        actions == Get(routing_rule, "actions")
    IN  IF invalid_fields # {} THEN "InvalidRuleFields"
        ELSE IF IsNone(Get(routing_rule, "name")) THEN "MissingRuleName"
        ELSE IF \/ IsNone(actions)
                \/ PyLen(actions) = 0
                \/ /\ IsNone(Get(actions, "fetch"))
                   /\ IsNone(Get(actions, "publish"))
                   /\ IsNone(Get(actions, "exit"))
             THEN "MissingActions"
             ELSE "ok"

RECURSIVE ValidateStructures(_)
ValidateStructures(rules) ==
    IF rules = <<>> THEN "ok"
    ELSE LET error == ValidateRuleStructure(Head(rules))
         IN  IF error # "ok" THEN error ELSE ValidateStructures(Tail(rules))

\* validate_routing_scheme in two passes: the structure of every rule, then
\* the schedule of every rule
validate_routing_scheme_two_passes(scheme) ==
    LET routing_rules == GetOr(scheme, "rules", ListV(<<>>))
    IN  IF PyLen(routing_rules) = 0 THEN "EmptyScheme"
        ELSE IF ValidateStructures(routing_rules.v) # "ok"
             THEN ValidateStructures(routing_rules.v)
             ELSE ValidateRules(routing_rules.v)

\* _validate_routing_scheme(routing_scheme): the error raised, or "ok"
validate_routing_scheme(scheme) ==
    LET routing_rules == GetOr(scheme, "rules", ListV(<<>>))
    IN  IF PyLen(routing_rules) = 0 THEN "EmptyScheme"
        ELSE ValidateRules(routing_rules.v)

\* _check_if_rule_name_is_unique(routing_scheme): the error raised, or "ok"
check_if_rule_name_is_unique(scheme) ==
    LET routing_rules == GetOr(scheme, "rules", ListV(<<>>)).v
    IN  IF \E i \in 1..Len(routing_rules) :
              Cardinality({j \in 1..Len(routing_rules) :
                  Get(routing_rules[j], "name") = Get(routing_rules[i], "name")}) > 1
        THEN "DuplicateRuleName"
        ELSE "ok"

\* the three calls on_create makes for a document and on_update for the
\* updates: the document as it is left and the error raised, or "ok"
CheckScheme(scheme) ==
    LET adjusted == adjust_for_empty_schedules(scheme)
        invalid == validate_routing_scheme(adjusted)
    IN  [doc |-> adjusted,
         error |-> IF invalid # "ok" THEN invalid
                   ELSE check_if_rule_name_is_unique(adjusted)]

\* the loop of on_create over docs: the first error ends it
RECURSIVE CheckDocs(_)
CheckDocs(ds) ==
    IF ds = <<>> THEN [docs |-> <<>>, outcome |-> "accepted"]
    ELSE LET first == CheckScheme(Head(ds))
             rest == CheckDocs(Tail(ds))
         IN  IF first.error # "ok"
             THEN [docs |-> <<first.doc>> \o Tail(ds), outcome |-> first.error]
             ELSE [docs |-> <<first.doc>> \o rest.docs, outcome |-> rest.outcome]

(***************************************************************************)
(* Schemes as clients submit them to on_create and on_update               *)
(***************************************************************************)
MaxDocRules == 3

ExitActions == DictV([exit |-> BoolV(TRUE)])
Mon == ListV(<<DayName(0, "lower")>>)
\* "25:00:00", "17:00" and the day "xyz": values no schedule may hold
BadFrom == StrV(<<"2","5",":","0","0",":","0","0">>)
BadTo == StrV(<<"1","7",":","0","0">>)
BadDay == StrV(<<"x","y","z">>)

ScheduleValid == Schedule({0}, "lower", T0900, T1700, TzUTC)
ScheduleZoneOnly == DictV([time_zone |-> TzUTC])
ScheduleNoZone == Schedule({0, 1}, "title", KeyMissing, KeyMissing, NoneV)
ScheduleToOnly == Schedule({0}, "lower", KeyMissing, T1700, TzUTC)
ScheduleFromOnly == Schedule({0}, "upper", T0900, KeyNone, TzJapan)
ScheduleFromIsTo == Schedule({6}, "lower", T0900, T0900, TzEST)
ScheduleNoDays == DictV([day_of_week |-> ListV(<<>>), time_zone |-> TzMars])
ScheduleBadDay == DictV([day_of_week |-> ListV(<<DayName(0, "lower"), BadDay>>),
                         hour_of_day_from |-> BadFrom, time_zone |-> TzMars])
ScheduleBadFrom == DictV([day_of_week |-> Mon, hour_of_day_from |-> BadFrom,
                          hour_of_day_to |-> BadTo, time_zone |-> TzMars])
ScheduleBadTo == DictV([day_of_week |-> Mon, hour_of_day_from |-> TimeStr(T0900),
                        hour_of_day_to |-> BadTo, time_zone |-> TzMars])
ScheduleFromAfterTo == Schedule({0}, "lower", T1700, T0900, TzMars)
ScheduleBadZone == Schedule({0}, "lower", KeyMissing, KeyMissing, TzMars)
ScheduleToOnlyBadTo == DictV([day_of_week |-> Mon, hour_of_day_from |-> NoneV,
                              hour_of_day_to |-> BadTo, time_zone |-> TzUTC])

\* A rule as submitted, with what it was written to be: its name ("" when it
\* has none or an empty one), the violations of section 4.3 it carries
\* (MissingRuleName for a name that is missing or None, EmptyRuleName for the
\* name "", InvalidFromTime for a start that is present and unparsable), and
\* whether its schedule gives an end and no start.
Sample(rule, name, viol, toOnly) ==
    [rule |-> rule, name |-> name, viol |-> viol, toOnly |-> toOnly]

RuleSamples == {
    Sample(DictV([name |-> NameA, actions |-> FetchActions]), "a", {}, FALSE),
    Sample(DictV([name |-> NameA, actions |-> FetchActions, schedule |-> ScheduleValid]),
           "a", {}, FALSE),
    Sample(DictV([name |-> NameB, actions |-> ExitActions, schedule |-> ScheduleZoneOnly]),
           "b", {}, FALSE),
    Sample(DictV([name |-> NameB, actions |-> FetchActions, schedule |-> ScheduleNoZone]),
           "b", {}, FALSE),
    Sample(DictV([name |-> NameC, actions |-> ExitActions, schedule |-> ScheduleFromOnly]),
           "c", {}, FALSE),
    Sample(DictV([name |-> NameC, actions |-> FetchActions, schedule |-> ScheduleFromIsTo]),
           "c", {}, FALSE),
    Sample(DictV([name |-> NameA, actions |-> FetchActions, schedule |-> ScheduleToOnly]),
           "a", {}, TRUE),
    Sample(DictV([name |-> NameB, actions |-> FetchActions, schedule |-> ScheduleToOnlyBadTo]),
           "b", {"InvalidToTime"}, TRUE),
    Sample(DictV([priority |-> NumV, schedule |-> ScheduleBadZone]), "",
           {"InvalidRuleFields", "MissingRuleName", "MissingActions", "UnknownTimeZone"},
           FALSE),
    Sample(DictV([name |-> NoneV, actions |-> EmptyDict, schedule |-> EmptyDict]), "",
           {"MissingRuleName", "MissingActions", "EmptySchedule"}, FALSE),
    Sample(DictV([name |-> NameA, actions |-> EmptyDict, schedule |-> ScheduleBadDay]), "a",
           {"MissingActions", "InvalidDayOfWeek", "InvalidFromTime", "UnknownTimeZone"},
           FALSE),
    Sample(DictV([name |-> NameB, actions |-> DictV([preserve_desk |-> BoolV(TRUE)])]), "b",
           {"MissingActions"}, FALSE),
    Sample(DictV([name |-> NameA, actions |-> FetchActions, schedule |-> EmptyDict]), "a",
           {"EmptySchedule"}, FALSE),
    Sample(DictV([name |-> NameA, actions |-> FetchActions, schedule |-> ScheduleNoDays]), "a",
           {"EmptySchedule", "UnknownTimeZone"}, FALSE),
    Sample(DictV([name |-> NameB, actions |-> FetchActions, schedule |-> ScheduleBadDay]), "b",
           {"InvalidDayOfWeek", "InvalidFromTime", "UnknownTimeZone"}, FALSE),
    Sample(DictV([name |-> NameA, actions |-> FetchActions, schedule |-> ScheduleBadFrom]), "a",
           {"InvalidFromTime", "InvalidToTime", "UnknownTimeZone"}, FALSE),
    Sample(DictV([name |-> NameB, actions |-> FetchActions, schedule |-> ScheduleBadTo]), "b",
           {"InvalidToTime", "UnknownTimeZone"}, FALSE),
    Sample(DictV([name |-> NameA, actions |-> FetchActions, schedule |-> ScheduleFromAfterTo]),
           "a", {"FromAfterTo", "UnknownTimeZone"}, FALSE),
    Sample(DictV([name |-> NameB, actions |-> FetchActions, schedule |-> ScheduleBadZone]), "b",
           {"UnknownTimeZone"}, FALSE),
    Sample(DictV([name |-> StrV(<<>>), actions |-> FetchActions]), "", {"EmptyRuleName"},
           FALSE) }

\* a few rules for the lists of several documents
FewSamples == {g \in RuleSamples : g.rule \in
    { DictV([name |-> NameA, actions |-> FetchActions]),
      DictV([name |-> NameA, actions |-> FetchActions, schedule |-> EmptyDict]),
      DictV([name |-> NoneV, actions |-> EmptyDict, schedule |-> EmptyDict]) }}

\* the scheme document holding the rules of the samples gs
SchemeOf(gs) == DictV([name |-> SchemeName, rules |-> ListV([i \in 1..Len(gs) |-> gs[i].rule])])

\* what the rules of the samples gs were written to be
GhostOf(gs) ==
    [i \in 1..Len(gs) |-> [name |-> gs[i].name, viol |-> gs[i].viol, toOnly |-> gs[i].toOnly]]

SampleLists == UNION { [1..n -> RuleSamples] : n \in 0..MaxDocRules }

\* One document of up to MaxDocRules rules, a document without the rules key,
\* or two documents of one rule each (on_create takes a list of documents).
InitValid ==
    /\ \/ \E gs \in SampleLists :
            /\ docsGhost = <<GhostOf(gs)>>
            /\ docs \in {<<SchemeOf(gs)>>}
                        \cup (IF gs = <<>> THEN {<<DictV([name |-> SchemeName])>>} ELSE {})
       \/ \E g1 \in FewSamples, g2 \in FewSamples :
            /\ docsGhost = <<GhostOf(<<g1>>), GhostOf(<<g2>>)>>
            /\ docs = <<SchemeOf(<<g1>>), SchemeOf(<<g2>>)>>
    /\ op = "none"
    /\ outcome = "pending"
    /\ SchedIdle
    /\ RouteIdle
    /\ DeleteIdle

\* on_create(docs)
OnCreate ==
    /\ op = "none"
    /\ op' = "create"
    /\ LET checked == CheckDocs(docs)
       IN  /\ docs' = checked.docs
           /\ outcome' = checked.outcome
    /\ UNCHANGED <<docsGhost, schedVars, routeVars, deleteVars>>

\* on_update(updates, original), docs holding the updates
OnUpdate ==
    /\ op = "none"
    /\ Len(docs) = 1
    /\ op' = "update"
    /\ LET checked == CheckScheme(docs[1])
       IN  /\ docs' = <<checked.doc>>
           /\ outcome' = IF checked.error = "ok" THEN "accepted" ELSE checked.error
    /\ UNCHANGED <<docsGhost, schedVars, routeVars, deleteVars>>

NextValid == OnCreate \/ OnUpdate

SpecValid == InitValid /\ [][NextValid]_vars

(***************************************************************************)
(* _adjust_for_empty_schedules called on a scheme, and called again on     *)
(* the scheme it left                                                      *)
(***************************************************************************)
\* A rule with the kind of its schedule: "absent" (no schedule key, or None),
\* "empty" ({}), "zoneOnly" (the time_zone key and no other), "noZone" (keys,
\* time_zone not among them) or "zoned" (time_zone and other keys).
AdjustSample(rule, kind) == [rule |-> rule, kind |-> kind]

AdjustSamples == {
    AdjustSample(DictV([name |-> NameA, actions |-> FetchActions]), "absent"),
    AdjustSample(DictV([name |-> NameB, actions |-> FetchActions, schedule |-> NoneV]),
                 "absent"),
    AdjustSample(DictV([name |-> NameA, actions |-> FetchActions, schedule |-> EmptyDict]),
                 "empty"),
    AdjustSample(DictV([name |-> NameB, actions |-> FetchActions,
                        schedule |-> ScheduleZoneOnly]), "zoneOnly"),
    AdjustSample(DictV([name |-> NameC, schedule |-> DictV([time_zone |-> TzJapan])]),
                 "zoneOnly"),
    AdjustSample(DictV([name |-> NameA, schedule |-> DictV([time_zone |-> NoneV])]),
                 "zoneOnly"),
    AdjustSample(DictV([name |-> NameB, actions |-> FetchActions,
                        schedule |-> ScheduleNoZone]), "noZone"),
    AdjustSample(DictV([name |-> NameC, actions |-> ExitActions,
                        schedule |-> DictV([hour_of_day_to |-> BadTo])]), "noZone"),
    AdjustSample(DictV([name |-> NameA, actions |-> FetchActions,
                        schedule |-> ScheduleValid]), "zoned"),
    AdjustSample(DictV([name |-> NameB, actions |-> FetchActions,
                        schedule |-> DictV([day_of_week |-> Mon, time_zone |-> NoneV])]),
                 "zoned") }

AdjustLists == UNION { [1..n -> AdjustSamples] : n \in 0..MaxDocRules }

\* A scheme of up to MaxDocRules rules, or one without the rules key.
InitAdjust ==
    /\ \E gs \in AdjustLists :
          /\ docsGhost = <<gs>>
          /\ docs \in {<<SchemeOf(gs)>>}
                      \cup (IF gs = <<>> THEN {<<DictV([name |-> SchemeName])>>} ELSE {})
    /\ op = "none"
    /\ outcome = "pending"
    /\ SchedIdle
    /\ RouteIdle
    /\ DeleteIdle

\* _adjust_for_empty_schedules(routing_scheme), docs holding the scheme; the
\* second call is given the scheme the first one left
AdjustForEmptySchedules ==
    /\ op \in {"none", "adjusted"}
    /\ op' = IF op = "none" THEN "adjusted" ELSE "adjusted again"
    /\ docs' = <<adjust_for_empty_schedules(docs[1])>>
    /\ UNCHANGED <<docsGhost, outcome, schedVars, routeVars, deleteVars>>

NextAdjust == AdjustForEmptySchedules

SpecAdjust == InitAdjust /\ [][NextAdjust]_vars

(***************************************************************************)
(* RoutingRuleSchemeService.on_delete and the store of routing schemes and *)
(* ingest providers                                                        *)
(***************************************************************************)
MaxSchemes == 3
MaxProviders == 3

\* the identifier (config.ID_FIELD) of the n-th scheme
SchemeId(n) == [t |-> "oid", v |-> n]
SchemeIds == {SchemeId(n) : n \in 1..MaxSchemes}
SchemeDoc(id) == DictV([id |-> id, name |-> SchemeName])

\* an ingest provider document; routing_scheme is an identifier, None, or
\* left out
ProviderDocs ==
    {DictV([name |-> NameA, routing_scheme |-> ref]) : ref \in SchemeIds \cup {NoneV}}
        \cup {DictV([name |-> NameB])}

\* self.backend.find_one("ingest_providers", req=None, routing_scheme=value):
\* the first provider whose routing_scheme field is value, or None
find_one(routing_scheme_value) ==
    LET found == {i \in 1..Len(ingest_providers) :
                     /\ "routing_scheme" \in DOMAIN ingest_providers[i].v
                     /\ ingest_providers[i].v["routing_scheme"] = routing_scheme_value}
    IN  IF found = {} THEN NoneV
        ELSE ingest_providers[CHOOSE i \in found : \A j \in found : i <= j]

\* Every scheme is in the store; up to MaxProviders providers, each
\* referring to a scheme or to none.
InitDelete ==
    /\ routing_schemes = SchemeIds
    /\ ingest_providers \in UNION { [1..n -> ProviderDocs] : n \in 0..MaxProviders }
    /\ deleteDoc = NoneV
    /\ deleteOutcome = "none"
    /\ SchedIdle
    /\ RouteIdle
    /\ ValidIdle

\* on_delete(doc) that looks up nothing and never raises
OnDeleteWithoutLookup ==
    /\ deleteOutcome # "passed"
    /\ \E id \in routing_schemes :
          /\ deleteDoc' = SchemeDoc(id)
          /\ deleteOutcome' = "passed"
    /\ UNCHANGED <<routing_schemes, ingest_providers, schedVars, routeVars, validVars>>

\* on_delete(doc), for a scheme of the store: raises the forbidden error when
\* find_one returns a provider
OnDelete ==
    /\ deleteOutcome # "passed"
    /\ \E id \in routing_schemes :
          /\ deleteDoc' = SchemeDoc(id)
          /\ deleteOutcome' = IF Truthy(find_one(Get(SchemeDoc(id), "id")))
                              THEN "SchemeInUse"
                              ELSE "passed"
    /\ UNCHANGED <<routing_schemes, ingest_providers, schedVars, routeVars, validVars>>

\* the store removing the scheme once on_delete has returned
DeleteScheme ==
    /\ deleteOutcome = "passed"
    /\ routing_schemes' = routing_schemes \ {Get(deleteDoc, "id")}
    /\ deleteOutcome' = "deleted"
    /\ UNCHANGED <<ingest_providers, deleteDoc, schedVars, routeVars, validVars>>

NextDelete == OnDelete \/ DeleteScheme

SpecDelete == InitDelete /\ [][NextDelete]_vars

(***************************************************************************)
(* Properties of apply_routing_scheme, stated on the calls it made         *)
(***************************************************************************)
SchemeRules == GetOr(routing_scheme, "rules", ListV(<<>>)).v
RuleNamed(name) == SchemeRules[CHOOSE i \in 1..Len(SchemeRules) : Get(SchemeRules[i], "name") = name]
IsApply(c) == c.op = "apply_rule"
\* the names of the rules apply_rule was invoked for, in call order
AppliedNames == [i \in 1..Len(SelectSeq(calls, IsApply)) |-> SelectSeq(calls, IsApply)[i].rule]
\* the rule takes part at now: scheduled, handled and matching
Takes(rule) ==
    /\ IsScheduled(rule, now)
    /\ Get(rule, "name") \in handles
    /\ Get(rule, "name") \in matches

\* C1: an apply_rule call for a rule whose actions.exit is true is the last
\* call apply_routing_scheme makes (no can_handle, does_match or apply_rule
\* follows it) and the loop is over; for rules [A(exit false), B(exit true), C],
\* all scheduled, handled and matching, apply_rule is invoked for A then B only.
C1_ExitStops ==
    /\ \A i \in 1..Len(calls) :
         (IsApply(calls[i]) /\ RuleExit(RuleNamed(calls[i].rule))) =>
             (i = Len(calls) /\ pc \in {"done", "raised"})
    /\ (/\ pc = "done"
        /\ Len(SchemeRules) = 3
        /\ \A i \in 1..3 : Takes(SchemeRules[i])
        /\ ~RuleExit(SchemeRules[1])
        /\ RuleExit(SchemeRules[2]))
       => AppliedNames = <<NameA, NameB>>

\* C1 witness: the routing of [A(exit false), B(exit true), C], all scheduled,
\* handled and matching, has returned after applying B.
C1_Witness ==
    /\ pc = "done"
    /\ Len(SchemeRules) = 3
    /\ \A i \in 1..3 : Takes(SchemeRules[i])
    /\ ~RuleExit(SchemeRules[1])
    /\ RuleExit(SchemeRules[2])
    /\ calls[Len(calls)] = [op |-> "apply_rule", rule |-> NameB]

\* the rules apply_rule is to be invoked for: those taking part, in scheme
\* order, up to and including the first of them with exit
RECURSIVE ExpectedApplied(_)
ExpectedApplied(rules) ==
    IF rules = <<>> THEN <<>>
    ELSE IF Takes(Head(rules))
         THEN <<Get(Head(rules), "name")>>
              \o (IF RuleExit(Head(rules)) THEN <<>> ELSE ExpectedApplied(Tail(rules)))
         ELSE ExpectedApplied(Tail(rules))

\* C2: when apply_routing_scheme has returned, apply_rule has been invoked
\* exactly once and in scheme order for every rule that is scheduled at now,
\* handled and matching and not preceded by an applied rule with exit, and
\* for no other rule; a skipped rule with exit does not stop the evaluation.
C2_AppliedExactly == pc = "done" => AppliedNames = ExpectedApplied(SchemeRules)

\* C2 witness: the call has returned, its first rule has exit and was skipped,
\* and a later rule was applied.
C2_Witness ==
    /\ pc = "done"
    /\ Len(SchemeRules) >= 2
    /\ RuleExit(SchemeRules[1])
    /\ ~Takes(SchemeRules[1])
    /\ Len(AppliedNames) >= 1

\* the position of the rule named name among the scheduled rules
ScheduledIndex(name) == CHOOSE k \in 1..Len(scheduled) : Get(scheduled[k], "name") = name

\* C3: does_match and apply_rule are never called for a rule whose handler's
\* can_handle is false, and after such a rule's can_handle the evaluation goes
\* on with the next scheduled rule.
C3_NotHandledSkipped ==
    \A i \in 1..Len(calls) :
        calls[i].rule \notin handles =>
            /\ calls[i].op = "can_handle"
            /\ LET k == ScheduledIndex(calls[i].rule)
               IN  IF i < Len(calls)
                   THEN /\ k < Len(scheduled)
                        /\ calls[i + 1] = Call("can_handle", scheduled[k + 1])
                   ELSE \/ pc = "loop" /\ idx = k + 1
                        \/ pc = "done" /\ k = Len(scheduled)

\* C3 witness: can_handle was false for a rule, and the next call made is the
\* can_handle of the rule after it.
C3_Witness ==
    \E i \in 1..Len(calls) :
        /\ calls[i].rule \notin handles
        /\ i < Len(calls)
        /\ calls[i + 1].op = "can_handle"

\* C4: apply_routing_scheme called with a scheme whose rules are empty or
\* absent raises no error and calls no handler and no filter.
C4_EmptyRulesNoOp ==
    (pc # "idle" /\ SchemeRules = <<>>) => (pc \in {"loop", "done"} /\ calls = <<>>)

(***************************************************************************)
(* Properties of on_create and on_update, stated on what the submitted     *)
(* rules were written to be                                                *)
(***************************************************************************)
StructuralKinds == {"InvalidRuleFields", "MissingRuleName", "MissingActions"}
ScheduleKinds == {"EmptySchedule", "InvalidDayOfWeek", "InvalidFromTime", "InvalidToTime",
                  "FromAfterTo", "UnknownTimeZone"}
\* the violations of one rule, in the order they are looked for
RuleOrder == <<"InvalidRuleFields", "MissingRuleName", "MissingActions", "EmptySchedule",
               "InvalidDayOfWeek", "InvalidFromTime", "InvalidToTime", "FromAfterTo",
               "UnknownTimeZone">>

Submitted == op # "none"

\* The violations a rule is rejected for: those it was written with that the
\* validation looks for (the name "" is not one of them), and InvalidFromTime
\* for an end given without a start.
Rejections(g) ==
    (g.viol \cap (StructuralKinds \cup ScheduleKinds))
        \cup (IF g.toOnly THEN {"InvalidFromTime"} ELSE {})

FirstKind(kinds) == RuleOrder[CHOOSE i \in 1..Len(RuleOrder) :
                        RuleOrder[i] \in kinds /\ \A j \in 1..(i - 1) : RuleOrder[j] \notin kinds]

HasDuplicateName(gs) == \E i, j \in 1..Len(gs) : i # j /\ gs[i].name = gs[j].name

\* the rejection of one scheme going through its rules in list order
ExpectedOfScheme(gs) ==
    IF gs = <<>> THEN "EmptyScheme"
    ELSE IF \E i \in 1..Len(gs) : Rejections(gs[i]) # {}
         THEN FirstKind(Rejections(gs[CHOOSE i \in 1..Len(gs) :
                  Rejections(gs[i]) # {} /\ \A j \in 1..(i - 1) : Rejections(gs[j]) = {}]))
         ELSE IF HasDuplicateName(gs) THEN "DuplicateRuleName" ELSE "accepted"

\* the outcome for the documents submitted: the rejection of the first
\* document that has one
RECURSIVE ExpectedOutcome(_)
ExpectedOutcome(ghosts) ==
    IF ghosts = <<>> THEN "accepted"
    ELSE IF ExpectedOfScheme(Head(ghosts)) # "accepted" THEN ExpectedOfScheme(Head(ghosts))
         ELSE ExpectedOutcome(Tail(ghosts))

\* C8 as stated: the rejection is the first in the order EmptyScheme, then a
\* structural violation of any rule, then a schedule violation of any rule,
\* then DuplicateRuleName.
C8_AsStated ==
    (Submitted /\ Len(docsGhost) = 1) =>
        LET gs == docsGhost[1]
            all == UNION {Rejections(gs[i]) : i \in 1..Len(gs)}
        IN  IF gs = <<>> THEN outcome = "EmptyScheme"
            ELSE IF all \cap StructuralKinds # {} THEN outcome \in StructuralKinds
            ELSE IF all \cap ScheduleKinds # {} THEN outcome \in ScheduleKinds
            ELSE IF HasDuplicateName(gs) THEN outcome = "DuplicateRuleName"
            ELSE outcome = "accepted"

\* C8 amended: the rejection is EmptyScheme for a scheme without rules;
\* otherwise that of the first rule, in list order, that has a violation, and
\* of that rule's violations the first in the order InvalidRuleFields,
\* MissingRuleName, MissingActions, EmptySchedule, InvalidDayOfWeek,
\* InvalidFromTime, InvalidToTime, FromAfterTo, UnknownTimeZone;
\* DuplicateRuleName only when no rule has a violation.
C8_FirstViolationByRule == Submitted => outcome = ExpectedOutcome(docsGhost)

\* C8 witness: the first rule has only schedule violations, the second has no
\* name, and the scheme is rejected for the first rule's schedule.
C8_Witness ==
    /\ Submitted
    /\ Len(docsGhost) = 1
    /\ Len(docsGhost[1]) = 2
    /\ docsGhost[1][1].viol # {}
    /\ docsGhost[1][1].viol \subseteq ScheduleKinds
    /\ "MissingRuleName" \in docsGhost[1][2].viol
    /\ outcome \in ScheduleKinds

\* C9: a scheme whose rules have no violation is accepted also when a
\* schedule gives hour_of_day_to and no hour_of_day_from, and InvalidFromTime
\* is raised only for a rule whose hour_of_day_from is present and unparsable.
C9_FromOptional ==
    (Submitted /\ Len(docsGhost) = 1) =>
        LET gs == docsGhost[1]
        IN  /\ (/\ gs # <<>>
                /\ \A i \in 1..Len(gs) : gs[i].viol = {}
                /\ ~HasDuplicateName(gs))
               => outcome = "accepted"
            /\ outcome = "InvalidFromTime" =>
                   \E i \in 1..Len(gs) : "InvalidFromTime" \in gs[i].viol

\* C10: a scheme in which a rule name appears more than once is never
\* accepted, and when it has no other violation it is rejected with
\* DuplicateRuleName.
C10_DuplicatesRejected ==
    (Submitted /\ Len(docsGhost) = 1 /\ HasDuplicateName(docsGhost[1])) =>
        /\ outcome # "accepted"
        /\ (\A i \in 1..Len(docsGhost[1]) : docsGhost[1][i].viol = {})
               => outcome = "DuplicateRuleName"

\* C11: every rule of a scheme accepted by on_create or on_update has a
\* non-empty name; a scheme with a rule whose name is missing, None or "" is
\* rejected.
C11_NamesNonEmpty ==
    (Submitted /\ outcome = "accepted") =>
        \A d \in 1..Len(docs) :
            \A i \in 1..Len(docs[d].v["rules"].v) :
                LET name == Get(docs[d].v["rules"].v[i], "name")
                IN  /\ name.t = "str"
                    /\ name.v # <<>>
                    /\ docsGhost[d][i].name # ""

(***************************************************************************)
(* Properties of _adjust_for_empty_schedules, stated on the rules as they  *)
(* were submitted                                                          *)
(***************************************************************************)
AdjustedRules == GetOr(docs[1], "rules", ListV(<<>>)).v

\* what the normalization does to one rule, given the rule as submitted
NormalizedAs(rule, g) ==
    LET before == Get(g.rule, "schedule")
        after == Get(rule, "schedule")
    IN  /\ g.kind = "absent" => (IsNone(after) /\ rule = g.rule)
        /\ g.kind = "zoneOnly" =>
               /\ "schedule" \in DOMAIN rule.v
               /\ after = NoneV
        /\ g.kind = "noZone" =>
               /\ after.t = "dict"
               /\ DOMAIN after.v = DOMAIN before.v \cup {"time_zone"}
               /\ after.v["time_zone"] = StrV(<<"U", "T", "C">>)
               /\ \A k \in DOMAIN before.v : after.v[k] = before.v[k]

C12_EachRuleNormalized ==
    op # "none" =>
        /\ Len(AdjustedRules) = Len(docsGhost[1])
        /\ \A i \in 1..Len(AdjustedRules) : NormalizedAs(AdjustedRules[i], docsGhost[1][i])

\* C12: _adjust_for_empty_schedules turns a schedule holding only time_zone
\* into None, adds time_zone "UTC" to a non-empty schedule without one and
\* leaves an absent schedule absent; called again on the scheme it left, it
\* changes nothing.
C12_Normalizes ==
    /\ []C12_EachRuleNormalized
    /\ [][op = "adjusted" => docs' = docs]_vars

\* C12 witness: a scheme with a zone-only schedule and a schedule without a
\* zone has been normalized twice.
C12_Witness ==
    /\ op = "adjusted again"
    /\ \E i \in 1..Len(docsGhost[1]) : docsGhost[1][i].kind = "zoneOnly"
    /\ \E i \in 1..Len(docsGhost[1]) : docsGhost[1][i].kind = "noZone"

(***************************************************************************)
(* Properties of on_delete, stated on the store                            *)
(***************************************************************************)
\* the schemes the ingest providers refer to
ReferencedSchemes ==
    {ingest_providers[i].v["routing_scheme"] :
        i \in {j \in 1..Len(ingest_providers) :
                  "routing_scheme" \in DOMAIN ingest_providers[j].v}} \ {NoneV}

GhostLocal == schedNow.day * SecondsPerDay + schedNow.sod + schedGhost.off
GhostWeekday == (GhostLocal \div SecondsPerDay) % 7
GhostSecond == GhostLocal % SecondsPerDay
\* the start of the window, the beginning of the day when none is given
GhostFrom == IF schedGhost.from < 0 THEN 0 ELSE schedGhost.from
\* the rule was returned as scheduled
RuleScheduled == schedOut = schedRules
SchedDone == schedPc = "done"

\* C5: on a matching day, with an end "to" whose seconds are 00 the rule is
\* scheduled exactly from the start of the window up to and including
\* to + 59 seconds (so not at to + 60 seconds); with an end whose seconds are
\* not 00 exactly from the start up to but excluding to; with no end, from the
\* start of the window to the last second of the day.
C5_WindowEnd ==
    (SchedDone /\ GhostWeekday \in schedGhost.days) =>
        LET to == schedGhost.to
        IN  CASE to >= 0 /\ to % 60 = 0 ->
                   (RuleScheduled <=> (GhostFrom <= GhostSecond /\ GhostSecond <= to + 59))
              [] to >= 0 /\ to % 60 # 0 ->
                   (RuleScheduled <=> (GhostFrom <= GhostSecond /\ GhostSecond < to))
              [] OTHER ->
                   (RuleScheduled <=> GhostFrom <= GhostSecond)

\* C5 witness: an end of 17:00:00, evaluated at 17:00:59 of a matching day,
\* where the rule is scheduled.
C5_Witness ==
    /\ SchedDone
    /\ GhostWeekday \in schedGhost.days
    /\ schedGhost.to = T1700
    /\ GhostSecond = T1700 + 59
    /\ RuleScheduled

\* C6 as stated: for from <= to (from = to included), on a scheduled day the
\* window contains the instant "from" and does not contain the instant "to"
\* unless to's seconds are 00.
C6_AsStated ==
    (/\ SchedDone
     /\ GhostWeekday \in schedGhost.days
     /\ schedGhost.from >= 0
     /\ schedGhost.to >= 0
     /\ schedGhost.from <= schedGhost.to) =>
        /\ (GhostSecond = schedGhost.from => RuleScheduled)
        /\ (GhostSecond = schedGhost.to /\ schedGhost.to % 60 # 0 => ~RuleScheduled)

\* C6 amended: for from <= to, on a scheduled day the window contains the
\* instant "from" whenever from < to or to's seconds are 00 (with from = to
\* and other seconds the window is empty); it does not contain the instant
\* "to" unless to's seconds are 00, and then it does.
C6_WindowEnds ==
    (/\ SchedDone
     /\ GhostWeekday \in schedGhost.days
     /\ schedGhost.from >= 0
     /\ schedGhost.to >= 0
     /\ schedGhost.from <= schedGhost.to) =>
        /\ (/\ GhostSecond = schedGhost.from
            /\ (schedGhost.from < schedGhost.to \/ schedGhost.to % 60 = 0)
            => RuleScheduled)
        /\ (/\ schedGhost.from = schedGhost.to
            /\ schedGhost.to % 60 # 0
            => ~RuleScheduled)
        /\ (GhostSecond = schedGhost.to => (RuleScheduled <=> schedGhost.to % 60 = 0))

\* C6 witness: from = to = 09:00:00 evaluated at 09:00:00 of a scheduled day,
\* where the rule is scheduled.
C6_Witness ==
    /\ SchedDone
    /\ GhostWeekday \in schedGhost.days
    /\ schedGhost.from = T0900
    /\ schedGhost.to = T0900
    /\ GhostSecond = T0900
    /\ RuleScheduled

\* C7: a rule is scheduled exactly when the weekday of the UTC instant
\* converted to the schedule's zone is one of day_of_week (however the day
\* names are cased) and the time of day of that converted instant is inside
\* the window.
C7_ZoneAdjusted ==
    SchedDone =>
        (RuleScheduled <=>
            /\ GhostWeekday \in schedGhost.days
            /\ GhostFrom <= GhostSecond
            /\ \/ schedGhost.to < 0
               \/ GhostSecond < schedGhost.to
               \/ schedGhost.to % 60 = 0 /\ GhostSecond < schedGhost.to + 60)

\* C7 witness: a UTC instant on a Monday that is already Tuesday in the
\* schedule's zone, with day_of_week ["Tue"]: the rule is scheduled.
C7_Witness ==
    /\ SchedDone
    /\ weekday(schedNow) = 0
    /\ GhostWeekday = 1
    /\ schedGhost.days = {1}
    /\ RuleScheduled

=============================================================================
